---- MODULE Spec2Model ----
(***************************************************************************)
(* Media_Manager: the movie reconciliation engine of utils/movie_manager.py *)
(* (local store, filesystem, remote Notion catalog) as a state machine.    *)
(*                                                                         *)
(* Nullable Python values are modelled as sequences of length at most one: *)
(* None is <<>>, a value v is <<v>>.  Ratings are kept in tenths (9.0 is   *)
(* 90) so that round(rating / 2) can be computed in integers.              *)
(***************************************************************************)
EXTENDS Integers, Sequences, FiniteSets, TLC

VARIABLES
    movies,             \* local store: rows of table movies with their paths
    languages,          \* local store: the language_name values of table languages
    poster_cache,       \* MoviePosterRepository.poster_cache: external id -> URL
    lookups,            \* the external ids the poster provider was asked for
    cache_file,         \* MOVIE_CACHE: None when absent, else what the file holds
    cache_age,          \* seconds since the ctime of MOVIE_CACHE
    previous_file,      \* MOVIE_CACHE as the latest refresh found it
    load_pc,            \* where _load_ranking and save_json stand
    fs_exists,          \* movie file paths for which os.path.exists is true
    mounted,            \* mount points that os.path.ismount reports mounted
    remote,             \* remote catalog: page id -> properties
    pc,                 \* position of MovieManager.run ("idle" outside a run)
    removed_movie_ids,  \* run(): result of remove_missing_movies
    notion_movies,      \* update_notion(): the records as loaded by all_movies()
    added_movies,       \* update(): result of compare_movies
    overlapping_movies, \* update(): result of compare_movies
    missing_movies,     \* update(): result of compare_movies (the wishlist)
    calls,              \* remote write calls issued by the latest operation
    cleared,            \* did remove_all_locations_from_movies return
    repeated,           \* the latest pass began where an all-accepted pass ended
    last_op,            \* the operation that produced the current state
    interrupted,        \* the ids a prune pass returned to a run that was killed
    rescraped           \* the folders whose sidecar document got another title

poster_vars == <<poster_cache, lookups>>

ranking_vars == <<cache_file, cache_age, previous_file, load_pc>>

vars == <<poster_vars, ranking_vars, movies, languages, fs_exists, mounted,
          remote, pc, removed_movie_ids, notion_movies, added_movies, overlapping_movies, missing_movies,
          calls, cleared, repeated, last_op, interrupted, rescraped>>

-----------------------------------------------------------------------------
(* Python values *)

None == <<>>
Some(v) == <<v>>
IsNone(x) == x = <<>>

Range(s) == {s[i] : i \in 1..Len(s)}

\* str(x) of a nullable string
StrOf(x) == IF IsNone(x) THEN "None" ELSE x[1]

\* "★" * n
RECURSIVE Stars(_)
Stars(n) == IF n <= 0 THEN "" ELSE "*" \o Stars(n - 1)

\* Python 3 round() of the non-negative quotient num / den: ties go to the
\* even neighbour
round(num, den) ==
    LET q == num \div den
        r == num % den
    IN  IF 2 * r < den THEN q
        ELSE IF 2 * r > den THEN q + 1
        ELSE IF q % 2 = 0 THEN q ELSE q + 1

\* f"https://www.imdb.com/title/{imdb_id}/"
ImdbUrl(imdb_id) == "https://www.imdb.com/title/" \o imdb_id \o "/"

-----------------------------------------------------------------------------
(* models.py *)

\* Movie.unique_key
Movie_unique_key(movie) ==
    IF IsNone(movie.year) THEN movie.title
    ELSE ToString(movie.year[1]) \o "-" \o movie.title

\* StoragePath(storage, location_path)
StoragePath(label, location_path) == [location_path |-> location_path, label |-> label]

\* [path.storage.label for path in movie.paths]
PathLabels(movie) == [i \in 1..Len(movie.paths) |-> movie.paths[i].label]

-----------------------------------------------------------------------------
(* NotionMovie *)

\* NotionMovie.__init__ from a page dictionary: every property object exists,
\* its value is None when the page holds none
NotionMovie(id, page) ==
    [id |-> id, title |-> page.title, year |-> page.year,
     tagline |-> page.tagline, rating_set |-> TRUE, rating |-> page.rating,
     imdb_url |-> page.imdb_url, rank |-> page.rank,
     locations |-> page.locations]

\* NotionMovie.__init__ from a Movie: "★" * int(round(data.rating) / 2)
create_stars(rating) == Stars(round(rating, 10) \div 2)

\* NotionMovie.__init__ from a Movie, the fields it assigns: a positive
\* rating whose stars are the empty string leaves the attribute rating
\* unassigned (rating_defined is FALSE), a rating of None or 0 assigns None
\* to it (rating_set is FALSE)
NotionMovie_from_Movie(data) ==
    LET positive == ~IsNone(data.rating) /\ data.rating[1] > 0
        stars == IF positive THEN create_stars(data.rating[1]) ELSE ""
    IN  [id |-> data.notion_id, title |-> Some(data.title), year |-> data.year,
         tagline |-> data.tagline_text,
         rating_defined |-> ~positive \/ stars # "",
         rating_set |-> positive /\ stars # "",
         rating |-> IF positive /\ stars # "" THEN Some(stars) ELSE None]

\* NotionMovie.unique_key
NotionMovie_unique_key(movie) ==
    IF IsNone(movie.year) THEN StrOf(movie.title)
    ELSE ToString(movie.year[1]) \o "-" \o StrOf(movie.title)

\* NotionMovie.get_properties: the property names sent and their values
get_properties(movie) ==
    LET keys == {"Titel", "Speicherorte"}
                \cup (IF ~IsNone(movie.year) THEN {"Jahr"} ELSE {})
                \cup (IF ~IsNone(movie.tagline) THEN {"Handlung"} ELSE {})
                \cup (IF movie.rating_set /\ ~IsNone(movie.rating)
                      THEN {"Rating"} ELSE {})
                \cup (IF ~IsNone(movie.imdb_url) THEN {"Imdb"} ELSE {})
                \cup (IF ~IsNone(movie.rank) THEN {"Rang"} ELSE {})
    IN  [k \in keys |->
            CASE k = "Titel" -> movie.title
              [] k = "Jahr" -> movie.year
              [] k = "Handlung" -> movie.tagline
              [] k = "Rating" -> movie.rating
              [] k = "Imdb" -> movie.imdb_url
              [] k = "Rang" -> movie.rank
              [] k = "Speicherorte" -> movie.locations]

-----------------------------------------------------------------------------
(* Python dict, as the list of its (key, value) items in insertion order *)

dict_has(d, k) == \E i \in 1..Len(d) : d[i][1] = k

dict_get(d, k) == d[CHOOSE i \in 1..Len(d) : d[i][1] = k][2]

\* d[k] = v: a new key goes to the end, a known key keeps its place
dict_put(d, k, v) ==
    IF dict_has(d, k)
    THEN [i \in 1..Len(d) |-> IF d[i][1] = k THEN <<k, v>> ELSE d[i]]
    ELSE Append(d, <<k, v>>)

\* {key: value for (key, value) in items}
RECURSIVE dict_from(_, _)
dict_from(items, d) ==
    IF items = <<>> THEN d
    ELSE dict_from(Tail(items), dict_put(d, Head(items)[1], Head(items)[2]))

-----------------------------------------------------------------------------
(* MovieUpdater.compare_movies *)

local_movie_dict(local_movies) ==
    dict_from([i \in 1..Len(local_movies) |->
                  <<Movie_unique_key(local_movies[i]), local_movies[i]>>], <<>>)

notion_movie_dict(notion_list) ==
    dict_from([i \in 1..Len(notion_list) |->
                  <<NotionMovie_unique_key(notion_list[i]), notion_list[i]>>], <<>>)

RECURSIVE classify_local(_, _, _)
classify_local(items, ndict, acc) ==
    IF items = <<>> THEN acc
    ELSE LET unique_key == Head(items)[1]
             local_movie == Head(items)[2]
         IN  IF ~dict_has(ndict, unique_key)
             THEN classify_local(Tail(items), ndict,
                     [acc EXCEPT !.added = Append(@, local_movie)])
             ELSE classify_local(Tail(items), ndict,
                     [acc EXCEPT !.overlapping =
                         Append(@, [local_movie |-> local_movie,
                                    notion_movie |-> dict_get(ndict, unique_key)])])

\* the second loop without its test: every record goes to missing
classify_remote_all(items, ldict, acc) ==
    acc \o [i \in 1..Len(items) |-> items[i][2]]

RECURSIVE classify_remote(_, _, _)
classify_remote(items, ldict, acc) ==
    IF items = <<>> THEN acc
    ELSE LET title_year == Head(items)[1]
             notion_movie == Head(items)[2]
         IN  IF ~dict_has(ldict, title_year)
             THEN classify_remote(Tail(items), ldict, Append(acc, notion_movie))
             ELSE classify_remote(Tail(items), ldict, acc)

\* compare_movies with the second loop testing the wrong dictionary
compare_movies_wrong_dict(local_movies, notion_list) ==
    LET ldict == local_movie_dict(local_movies)
        ndict == notion_movie_dict(notion_list)
        locals == classify_local(ldict, ndict, [added |-> <<>>, overlapping |-> <<>>])
    IN  [added |-> locals.added,
         overlapping |-> locals.overlapping,
         missing |-> classify_remote(ndict, ndict, <<>>)]

compare_movies(local_movies, notion_list) ==
    LET ldict == local_movie_dict(local_movies)
        ndict == notion_movie_dict(notion_list)
        locals == classify_local(ldict, ndict, [added |-> <<>>, overlapping |-> <<>>])
    IN  [added |-> locals.added,
         overlapping |-> locals.overlapping,
         missing |-> classify_remote(ndict, ldict, <<>>)]

-----------------------------------------------------------------------------
(* MovieUpdater.update: the field comparison of one overlapping pair *)

\* the local labels put in place of the value of the record
append_locations_replace(value, local_locations) == local_locations

\* for local_location in local_locations: append the labels the record lacks
RECURSIVE append_locations(_, _)
append_locations(value, local_locations) ==
    IF local_locations = <<>> THEN value
    ELSE IF Head(local_locations) \notin Range(value)
         THEN append_locations(Append(value, Head(local_locations)),
                               Tail(local_locations))
         ELSE append_locations(value, Tail(local_locations))

\* "★" * int(round(local_movie.rating / 2))
update_stars(rating) == Stars(round(rating, 20))

diff_locations(local_movie, n) ==
    LET value == append_locations(n.movie.locations, PathLabels(local_movie))
    IN  IF value # n.movie.locations
        THEN [movie |-> [n.movie EXCEPT !.locations = value], had_changes |-> TRUE]
        ELSE n

diff_tagline(local_movie, n) ==
    IF local_movie.tagline_text # n.movie.tagline
    THEN [movie |-> [n.movie EXCEPT !.tagline = local_movie.tagline_text],
          had_changes |-> TRUE]
    ELSE n

diff_imdb_url(local_movie, n) ==
    IF ~IsNone(local_movie.imdb_id)
       /\ n.movie.imdb_url # Some(ImdbUrl(local_movie.imdb_id[1]))
    THEN [movie |-> [n.movie EXCEPT
                        !.imdb_url = Some(ImdbUrl(local_movie.imdb_id[1]))],
          had_changes |-> TRUE]
    ELSE n

diff_rating(local_movie, n) ==
    IF ~IsNone(local_movie.rating) /\ local_movie.rating[1] # 0
    THEN LET rating == update_stars(local_movie.rating[1])
         IN  IF rating = "" /\ n.movie.rating_set
             THEN [movie |-> [n.movie EXCEPT !.rating_set = FALSE, !.rating = None],
                   had_changes |-> TRUE]
             ELSE IF ~n.movie.rating_set /\ rating # ""
             THEN [movie |-> [n.movie EXCEPT !.rating_set = TRUE,
                                             !.rating = Some(rating)],
                   had_changes |-> TRUE]
             ELSE IF n.movie.rating_set
                     /\ (IsNone(n.movie.rating) \/ n.movie.rating[1] # rating)
             THEN [movie |-> [n.movie EXCEPT !.rating = Some(rating)],
                   had_changes |-> TRUE]
             ELSE n
    ELSE n

diff_rank(local_movie, n) ==
    IF IsNone(local_movie.rank)
    THEN IF ~IsNone(n.movie.rank)
         THEN [movie |-> [n.movie EXCEPT !.rank = None], had_changes |-> TRUE]
         ELSE n
    ELSE IF IsNone(n.movie.rank) \/ n.movie.rank[1] # local_movie.rank[1]
         THEN [movie |-> [n.movie EXCEPT !.rank = local_movie.rank],
               had_changes |-> TRUE]
         ELSE n

\* the body of the loop over overlapping_movies up to "if had_changes": the
\* record as changed in memory and the verdict
diff_pair(local_movie, notion_movie) ==
    diff_rank(local_movie,
      diff_rating(local_movie,
        diff_imdb_url(local_movie,
          diff_tagline(local_movie,
            diff_locations(local_movie,
              [movie |-> notion_movie, had_changes |-> FALSE])))))

-----------------------------------------------------------------------------
(* The remote catalog *)

\* what the remote service does with an accepted PATCH /v1/pages/{id}: the
\* properties named in the payload are overwritten, the others are kept
apply_patch(page, properties) ==
    LET has(k) == k \in DOMAIN properties
    IN  [title |-> IF has("Titel") THEN properties["Titel"] ELSE page.title,
         year |-> IF has("Jahr") THEN properties["Jahr"] ELSE page.year,
         tagline |-> IF has("Handlung") THEN properties["Handlung"] ELSE page.tagline,
         rating |-> IF has("Rating") THEN properties["Rating"] ELSE page.rating,
         imdb_url |-> IF has("Imdb") THEN properties["Imdb"] ELSE page.imdb_url,
         rank |-> IF has("Rang") THEN properties["Rang"] ELSE page.rank,
         locations |-> IF has("Speicherorte") THEN properties["Speicherorte"]
                       ELSE page.locations]

\* the number of pages the catalog can hold
MaxPages == 3

\* the order in which the query endpoint lists the pages: r1, r2, ...
RemoteOrder == [i \in 1..MaxPages |-> "r" \o ToString(i)]

\* NotionMovieRepository.all_movies
all_movies(pages) ==
    LET ids == SelectSeq(RemoteOrder, LAMBDA id : id \in DOMAIN pages)
    IN  [i \in 1..Len(ids) |-> NotionMovie(ids[i], pages[ids[i]])]

\* NotionMovieRepository.remove_all_locations_from_movies: the loop calls
\* self.execute_update, which no class defines, so the first id raises
\* AttributeError before any request is sent
remove_all_locations_from_movies(movie_ids, pages) ==
    [raised |-> movie_ids # <<>>, pages |-> pages]

-----------------------------------------------------------------------------
(* MovieUpdater.update *)

\* what a remote write can end in: accepted (status 200), a transport error
\* (requests raises, an Exception), or rejected (status other than 200:
\* InvalidRequest, a BaseException that "except Exception" lets through)
Outcomes == {"ok", "error", "rejected"}

\* local_movie.notion_id = notion_movie.id, on the row of the session
set_notion_id(rows, local_movie, id) ==
    [i \in 1..Len(rows) |->
        IF rows[i].title = local_movie.title /\ rows[i].year = local_movie.year
        THEN [rows[i] EXCEPT !.notion_id = Some(id)]
        ELSE rows[i]]

\* the loop over added_movies: the call of add_movie is commented out, the
\* loop only logs and counts
update_added(added, st) == st

\* the loop over overlapping_movies; st is the session's rows, the remote
\* pages, the calls sent and whether an exception left the loop; outcomes
\* holds the fate of each write in the order they are sent
RECURSIVE update_overlapping(_, _, _)
update_overlapping(pairs, outcomes, st) ==
    IF pairs = <<>> \/ st.raised THEN st
    ELSE LET local_movie == Head(pairs).local_movie
             d == diff_pair(local_movie, Head(pairs).notion_movie)
             rows == set_notion_id(st.rows, local_movie, d.movie.id)
             call == [op |-> "patch", id |-> d.movie.id,
                      properties |-> get_properties(d.movie),
                      result |-> Head(outcomes)]
         IN  IF ~d.had_changes
             THEN update_overlapping(Tail(pairs), outcomes,
                                     [st EXCEPT !.rows = rows])
             ELSE IF Head(outcomes) = "ok"
             THEN update_overlapping(Tail(pairs), Tail(outcomes),
                     [st EXCEPT !.rows = rows,
                                !.calls = Append(@, call),
                                !.pages[d.movie.id] =
                                    apply_patch(@, call.properties)])
             ELSE IF Head(outcomes) = "error"
             THEN update_overlapping(Tail(pairs), Tail(outcomes),
                     [st EXCEPT !.rows = rows, !.calls = Append(@, call)])
             ELSE [st EXCEPT !.rows = rows, !.calls = Append(@, call),
                             !.raised = TRUE]

\* update(notion_movies): one transaction over the local rows; an exception
\* that leaves the with-block rolls the rows back
update(rows, pages, notion_list, outcomes) ==
    LET cmp == compare_movies(rows, notion_list)
        st0 == update_added(cmp.added,
                   [rows |-> rows, pages |-> pages, calls |-> <<>>,
                    raised |-> FALSE])
        st == update_overlapping(cmp.overlapping, outcomes, st0)
    IN  [rows |-> IF st.raised THEN rows ELSE st.rows,
         pages |-> st.pages,
         calls |-> st.calls,
         raised |-> st.raised,
         cmp |-> cmp]

-----------------------------------------------------------------------------
(* MovieManager.update_notion *)

NoDiff == [added |-> <<>>, overlapping |-> <<>>, missing |-> <<>>]

\* update_notion(removed_movie_ids): clear the locations of the pruned
\* records, load the catalog, run the diff pass.  load_ok is whether
\* load_records got status 200 (it raises InvalidRequest otherwise).
update_notion(ids, load_ok, outcomes) ==
    LET clr == remove_all_locations_from_movies(ids, remote)
        loaded == IF clr.raised \/ ~load_ok THEN <<>> ELSE all_movies(clr.pages)
        res == IF clr.raised \/ ~load_ok
               THEN [rows |-> movies, pages |-> clr.pages, calls |-> <<>>,
                     raised |-> TRUE, cmp |-> NoDiff]
               ELSE update(movies, clr.pages, loaded, outcomes)
    IN  /\ cleared' = ~clr.raised
        /\ notion_movies' = loaded
        /\ movies' = res.rows
        /\ remote' = res.pages
        /\ calls' = res.calls
        /\ added_movies' = res.cmp.added
        /\ overlapping_movies' = res.cmp.overlapping
        /\ missing_movies' = res.cmp.missing
        /\ last_op' = IF clr.raised THEN "clear_raised"
                       ELSE IF ~load_ok THEN "load_raised"
                       ELSE IF res.raised THEN "update_raised"
                       ELSE "update_notion"

OutcomeLists(n) == [1..n -> Outcomes]

\* the number of remote writes a pass over these rows and records reaches
\* when none of them raises
Writes(rows, notion_list) ==
    LET pairs == compare_movies(rows, notion_list).overlapping
    IN  Cardinality({i \in 1..Len(pairs) :
            diff_pair(pairs[i].local_movie, pairs[i].notion_movie).had_changes})

\* a call of MovieManager.update_notion() on its own, with the default
\* removed_movie_ids = []
UpdateNotionCall ==
    /\ pc = "idle"
    /\ \/ update_notion(<<>>, FALSE, <<>>)
       \/ \E outcomes \in OutcomeLists(Writes(movies, all_movies(remote))) :
             update_notion(<<>>, TRUE, outcomes)
    /\ repeated' = (last_op = "update_notion"
                     /\ \A i \in 1..Len(calls) : calls[i].result = "ok")
    /\ UNCHANGED <<poster_vars, ranking_vars, rescraped, interrupted, languages, fs_exists, mounted, pc, removed_movie_ids>>

-----------------------------------------------------------------------------
(* The filesystem and the configuration *)

\* config["local_media_locations"]["movies"]: label, mount_point, path
Locations ==
    <<[label |-> "Wotan", mount_point |-> None, path |-> "/w"],
      [label |-> "fritzNAS", mount_point |-> Some("/mnt/nas"), path |-> "/f"]>>

MountPoints == {"/mnt/nas"}

\* the movie folders that can exist, in the order os.walk visits them, each
\* with the location it lies under and what its sidecar document holds.
\* "/w/c" has no year and a title that gives it the key of "/w/a", and two
\* audio streams of one language; "/f/n" has no title element; "/f/m" is not
\* well-formed XML; "/f/a" is a copy of movie ("A", 1) with other metadata.
MovieFiles ==
    <<[movie_path |-> "/w/a", root |-> "/w", parsed |-> TRUE,
       title |-> Some("A"), year |-> Some(1), tagline |-> Some("t"),
       rating |-> Some(90), duration |-> Some(60), id |-> Some("tt1"),
       languages |-> <<"en">>],
      [movie_path |-> "/w/c", root |-> "/w", parsed |-> TRUE,
       title |-> Some("1-A"), year |-> None, tagline |-> None,
       rating |-> Some(10), duration |-> None, id |-> None,
       languages |-> <<"en", "en">>],
      [movie_path |-> "/f/n", root |-> "/f", parsed |-> TRUE,
       title |-> None, year |-> Some(1), tagline |-> None,
       rating |-> None, duration |-> None, id |-> None,
       languages |-> <<>>],
      [movie_path |-> "/f/m", root |-> "/f", parsed |-> FALSE,
       title |-> None, year |-> None, tagline |-> None,
       rating |-> None, duration |-> None, id |-> None,
       languages |-> <<>>],
      [movie_path |-> "/f/a", root |-> "/f", parsed |-> TRUE,
       title |-> Some("A"), year |-> Some(1), tagline |-> Some("u"),
       rating |-> Some(10), duration |-> Some(61), id |-> Some("tt1"),
       languages |-> <<"en">>]>>

MoviePaths == {MovieFiles[i].movie_path : i \in 1..Len(MovieFiles)}

\* the folders as they are now: a sidecar document that was scraped again
\* names movie "B"
CurrentFiles ==
    [i \in 1..Len(MovieFiles) |->
        IF MovieFiles[i].movie_path \in rescraped
        THEN [MovieFiles[i] EXCEPT !.title = Some("B")]
        ELSE MovieFiles[i]]

\* os.path.ismount(mount_point)
ismount(mount_point) == mount_point \in mounted

\* the roots of the locations; they are taken to exist throughout
RootPaths == {Locations[i].path : i \in 1..Len(Locations)}

\* os.path.exists(path)
exists(path) == path \in fs_exists \cup RootPaths

-----------------------------------------------------------------------------
(* NFO *)

\* NFO.imdb_id: the property evaluates imdb_id.text and returns nothing
NFO_imdb_id(doc) == None

\* NFO.__init__: a ParseError is caught and leaves self.root = None
NFO_root_is_None(doc) == ~doc.parsed

\* the values the properties of NFO give for a sidecar document
NFO(doc) ==
    [title |-> doc.title, year |-> doc.year, tagline_text |-> doc.tagline,
     rating |-> doc.rating, duration |-> doc.duration,
     imdb_id |-> NFO_imdb_id(doc), languages |-> doc.languages]

\* NFO.is_valid
NFO_is_valid(nfo) == ~IsNone(nfo.title)

-----------------------------------------------------------------------------
(* LocalMovieRepository *)

\* Movie(title, year), every other column NULL and no path
Movie(title, year) ==
    [title |-> title, year |-> year, notion_id |-> None, imdb_id |-> None,
     tagline_text |-> None, rating |-> None, duration |-> None, rank |-> None,
     poster_url |-> None, paths |-> <<>>, languages |-> {}]

\* find_movie_by_title_and_year(...).first(): the index of the row, 0 for None
find_movie_by_title_and_year(rows, title, year) ==
    IF \E i \in 1..Len(rows) : rows[i].title = title /\ rows[i].year = year
    THEN CHOOSE i \in 1..Len(rows) : rows[i].title = title /\ rows[i].year = year
    ELSE 0

\* _append_movie_path: nothing when the movie has the path, else a new
\* StoragePath on the movie
_append_movie_path(movie, label, location_path) ==
    IF \E i \in 1..Len(movie.paths) : movie.paths[i].location_path = location_path
    THEN movie
    ELSE [movie EXCEPT !.paths = Append(@, StoragePath(label, location_path))]

\* location_path without a unique constraint
path_taken_never(rows, i, location_path) == FALSE

\* storage_paths.location_path is unique: the flush of a second row with the
\* path of another movie raises IntegrityError
path_taken(rows, i, location_path) ==
    \E j \in 1..Len(rows) :
        /\ j # i
        /\ \E k \in 1..Len(rows[j].paths) :
              rows[j].paths[k].location_path = location_path

\* _append_movie_languages: the rows of languages with one of the names are
\* queried, a new Language is made for every other entry of the list, and
\* all of them are appended to movie.languages.  language_name is unique:
\* the flush raises IntegrityError when the list names a new language twice.
\* movie_languages has the primary key (movie_id, language_id), and a
\* language the movie already has adds no row to it.
_append_movie_languages(movie, language_names, table) ==
    LET new_languages == SelectSeq(language_names, LAMBDA name : name \notin table)
    IN  [movie |-> [movie EXCEPT !.languages = @ \cup Range(language_names)],
         table |-> table \cup Range(language_names),
         raised |-> Cardinality(Range(new_languages)) < Len(new_languages)]

\* what the poster provider answers for an external id: a URL or nothing
Posters == [imdb_id \in {"tt1"} |-> Some("p-tt1")]

\* MoviePosterRepository.get_movie_poster_url
get_movie_poster_url(posters, imdb_id) ==
    IF IsNone(imdb_id) THEN None
    ELSE IF imdb_id[1] \in DOMAIN posters THEN posters[imdb_id[1]]
    ELSE None

\* every column takes the value of the sidecar document and of the poster
\* provider, set or not
fill_always(movie, nfo, posters) ==
    [movie EXCEPT !.duration = nfo.duration, !.rating = nfo.rating,
                  !.imdb_id = nfo.imdb_id,
                  !.poster_url = get_movie_poster_url(posters, nfo.imdb_id),
                  !.tagline_text = nfo.tagline_text]

\* add_or_update_movie: "if movie.duration is None: ..." to
\* "if movie.tagline_text is None or len(movie.tagline_text) == 0: ..."
fill_unset(movie, nfo, posters) ==
    LET m0 == IF IsNone(movie.duration)
              THEN [movie EXCEPT !.duration = nfo.duration] ELSE movie
        m1 == IF IsNone(m0.rating) THEN [m0 EXCEPT !.rating = nfo.rating] ELSE m0
        m2 == IF IsNone(m1.imdb_id) /\ ~IsNone(nfo.imdb_id)
              THEN [m1 EXCEPT !.imdb_id = nfo.imdb_id] ELSE m1
        m3 == IF IsNone(m2.poster_url) /\ ~IsNone(m2.imdb_id)
              THEN [m2 EXCEPT !.poster_url =
                                  get_movie_poster_url(posters, m2.imdb_id)]
              ELSE m2
    IN  IF IsNone(m3.tagline_text) \/ Len(m3.tagline_text[1]) = 0
        THEN [m3 EXCEPT !.tagline_text = nfo.tagline_text] ELSE m3

\* add_or_update_movie: one transaction, rolled back when it raises; st is
\* the rows of movies, the names in languages and whether a call has raised
add_or_update_movie(st, nfo, label, movie_path) ==
    LET rows == st.rows
        found == find_movie_by_title_and_year(rows, nfo.title[1], nfo.year)
        rows1 == IF found = 0 THEN Append(rows, Movie(nfo.title[1], nfo.year))
                 ELSE rows
        i == IF found = 0 THEN Len(rows1) ELSE found
        m3 == fill_unset(rows1[i], nfo, Posters)
        m4 == _append_movie_path(m3, label, movie_path)
        l == _append_movie_languages(m4, nfo.languages, st.languages)
    IN  IF (m4.paths # m3.paths /\ path_taken(rows1, i, movie_path)) \/ l.raised
        THEN [st EXCEPT !.raised = TRUE]
        ELSE [rows |-> [rows1 EXCEPT ![i] = l.movie], languages |-> l.table,
              raised |-> FALSE]

\* find_storage_paths_by_label
find_storage_paths_by_label(rows, label) ==
    UNION {{rows[i].paths[k].location_path :
                k \in {n \in 1..Len(rows[i].paths) : rows[i].paths[n].label = label}} :
           i \in 1..Len(rows)}

\* delete_storage_paths: the rows of storage_paths with these paths go
delete_storage_paths(rows, paths_to_delete) ==
    [i \in 1..Len(rows) |->
        [rows[i] EXCEPT !.paths =
            SelectSeq(@, LAMBDA p : p.location_path \notin paths_to_delete)]]

\* delete_movies_without_paths: the rows left and the notion_ids returned
delete_movies_without_paths(rows) ==
    LET movies_to_delete == SelectSeq(rows, LAMBDA m : m.paths = <<>>)
        linked == SelectSeq(movies_to_delete, LAMBDA m : ~IsNone(m.notion_id))
    IN  [rows |-> SelectSeq(rows, LAMBDA m : m.paths # <<>>),
         deleted_movie_ids |-> [i \in 1..Len(linked) |-> linked[i].notion_id[1]]]

-----------------------------------------------------------------------------
(* MovieManager *)

\* no location is skipped
is_skipped_never(location) == FALSE

\* remove_missing_movies: "if mount_point is not None and not
\* os.path.ismount(mount_point): continue"
is_skipped(location) ==
    ~IsNone(location.mount_point) /\ ~ismount(location.mount_point[1])

\* remove_missing_movies: the loop that collects missing_paths
RECURSIVE missing_paths(_, _)
missing_paths(rows, locations) ==
    IF locations = <<>> THEN {}
    ELSE LET location == Head(locations)
             paths == find_storage_paths_by_label(rows, location.label)
         IN  IF is_skipped(location) THEN missing_paths(rows, Tail(locations))
             ELSE {path \in paths : ~exists(path)}
                  \cup missing_paths(rows, Tail(locations))

\* remove_missing_movies: the rows left and the notion_ids returned
remove_missing_movies(rows, locations) ==
    LET missing == missing_paths(rows, locations)
        deleted == delete_movies_without_paths(delete_storage_paths(rows, missing))
    IN  IF missing = {} THEN [rows |-> rows, deleted_movie_ids |-> <<>>]
        ELSE deleted

\* MovieManager.add_or_update_movie: parse the sidecar document, skip the
\* folder when it has no title, else upsert.  nfo.is_valid() reads
\* self.root.find and raises AttributeError when the root is None.
MovieManager_add_or_update_movie(st, label, file) ==
    IF NFO_root_is_None(file) THEN [st EXCEPT !.raised = TRUE]
    ELSE IF ~NFO_is_valid(NFO(file)) THEN st
    ELSE add_or_update_movie(st, NFO(file), label, file.movie_path)

\* add_or_update_stored_movies: the folders under path with one movie file
\* and one sidecar document, in walk order; an exception ends the walk
RECURSIVE add_or_update_stored_movies(_, _, _)
add_or_update_stored_movies(st, label, files) ==
    IF files = <<>> \/ st.raised THEN st
    ELSE add_or_update_stored_movies(
             MovieManager_add_or_update_movie(st, label, Head(files)),
             label, Tail(files))

\* file.process_locations with add_or_update_stored_movies as the action
RECURSIVE process_locations(_, _)
process_locations(st, locations) ==
    IF locations = <<>> \/ st.raised THEN st
    ELSE LET location == Head(locations)
             files == SelectSeq(CurrentFiles,
                          LAMBDA f : f.root = location.path /\ exists(f.movie_path))
         IN  IF (IsNone(location.mount_point) \/ ismount(location.mount_point[1]))
                /\ exists(location.path)
             THEN process_locations(
                      add_or_update_stored_movies(st, location.label, files),
                      Tail(locations))
             ELSE process_locations(st, Tail(locations))

\* the ranking list of the provider: external id -> rank
Rankings == [id \in {"tt1"} |-> 1]

\* update_imdb_movie_rankings when an update is due and the list was
\* fetched: movie.rank = top_movie["rank"] where it differs
update_imdb_movie_rankings(rows) ==
    [i \in 1..Len(rows) |->
        IF ~IsNone(rows[i].imdb_id) /\ rows[i].imdb_id[1] \in DOMAIN Rankings
        THEN [rows[i] EXCEPT !.rank = Some(Rankings[rows[i].imdb_id[1]])]
        ELSE rows[i]]

-----------------------------------------------------------------------------
(* The diff pass on its own: stores and catalogs drawn from bounded sets *)

\* rows of movie ("A", 1): tagline, rating, link and paths vary
LocalRowsA ==
    [title : {"A"}, year : {Some(1)},
     notion_id : {None, Some("r2")},
     imdb_id : {None},
     tagline_text : {None, Some("t")},
     rating : {None, Some(10), Some(90)},
     rank : {None}, duration : {None}, poster_url : {None}, languages : {{}},
     paths : {<<StoragePath("Wotan", "/w/a")>>,
              <<StoragePath("Wotan", "/w/a"), StoragePath("fritzNAS", "/f/a")>>}]

\* pages with the key of movie ("A", 1)
RemotePagesA ==
    [title : {Some("A")}, year : {Some(1)},
     tagline : {None, Some("t"), Some("u")},
     rating : {None, Some(Stars(4)), Some(Stars(5))},
     imdb_url : {None},
     rank : {None},
     locations : {<<>>, <<"Wotan">>, <<"Backup", "fritzNAS", "Wotan">>}]

\* rows of movie ("B", no year): external id and rank vary
LocalRowsB ==
    [title : {"B"}, year : {None}, notion_id : {None},
     imdb_id : {None, Some("tt1")},
     tagline_text : {None},
     rating : {None},
     rank : {None, Some(1)}, duration : {None}, poster_url : {None}, languages : {{}},
     paths : {<<StoragePath("Wotan", "/w/b")>>}]

\* pages with the key of movie ("B", no year), or with a key no movie has
RemotePagesB ==
    [title : {Some("B"), Some("C")}, year : {None},
     tagline : {None},
     rating : {None},
     imdb_url : {None, Some(ImdbUrl("tt1")), Some(ImdbUrl("tt2"))},
     rank : {None, Some(1), Some(2)},
     locations : {<<"Wotan">>}]

\* a page no local movie matches
RemotePageC ==
    [title |-> Some("C"), year |-> None, tagline |-> None, rating |-> None,
     imdb_url |-> None, rank |-> None, locations |-> <<"Backup">>]

\* a pair of row and page that compare equal in every field
EqualRowA ==
    [title |-> "A", year |-> Some(1), notion_id |-> Some("r1"), imdb_id |-> None,
     tagline_text |-> Some("t"), rating |-> Some(90), rank |-> None,
     duration |-> None, poster_url |-> None, languages |-> {},
     paths |-> <<StoragePath("Wotan", "/w/a")>>]
EqualPageA ==
    [title |-> Some("A"), year |-> Some(1), tagline |-> Some("t"),
     rating |-> Some(Stars(4)), imdb_url |-> None, rank |-> None,
     locations |-> <<"Wotan">>]
EqualRowB ==
    [title |-> "B", year |-> None, notion_id |-> None, imdb_id |-> None,
     tagline_text |-> None, rating |-> None, rank |-> None,
     duration |-> None, poster_url |-> None, languages |-> {},
     paths |-> <<StoragePath("Wotan", "/w/b")>>]
EqualPageB ==
    [title |-> Some("B"), year |-> None, tagline |-> None, rating |-> None,
     imdb_url |-> None, rank |-> None, locations |-> <<"Wotan">>]

InitTransient ==
    /\ pc = "idle"
    /\ removed_movie_ids = <<>>
    /\ notion_movies = <<>>
    /\ added_movies = <<>>
    /\ overlapping_movies = <<>>
    /\ missing_movies = <<>>
    /\ calls = <<>>
    /\ cleared = FALSE
    /\ repeated = FALSE
    /\ last_op = "init"
    /\ poster_cache = <<>>
    /\ lookups = <<>>
    /\ cache_file = None
    /\ cache_age = 0
    /\ previous_file = None
    /\ load_pc = "idle"
    /\ interrupted = {}
    /\ rescraped = {}

\* one movie varies while the other, if there is one, is in step with its page
InitUpdate ==
    /\ \E a \in LocalRowsA, p \in RemotePagesA, b \in LocalRowsB, q \in RemotePagesB :
          /\ (a = EqualRowA /\ p = EqualPageA) \/ (b = EqualRowB /\ q = EqualPageB)
          /\ movies \in {<<a>>, <<b, a>>}
          /\ remote \in {[id \in {"r1"} |-> p],
                         [id \in {"r1", "r2"} |-> IF id = "r1" THEN p ELSE q]}
    /\ languages = {}
    /\ fs_exists = MoviePaths
    /\ mounted = MountPoints
    /\ InitTransient

NextUpdate == UpdateNotionCall

SpecUpdate == InitUpdate /\ [][NextUpdate]_vars

-----------------------------------------------------------------------------
(* MovieManager.run, one unit per step *)

ResetDiff ==
    /\ notion_movies' = <<>>
    /\ added_movies' = <<>>
    /\ overlapping_movies' = <<>>
    /\ missing_movies' = <<>>
    /\ calls' = <<>>
    /\ cleared' = FALSE

\* run(): removed_movie_ids = self.remove_missing_movies(locations)
RemoveMissingMovies ==
    /\ pc = "idle"
    /\ LET r == remove_missing_movies(movies, Locations)
       IN  /\ movies' = r.rows
           /\ removed_movie_ids' = r.deleted_movie_ids
    /\ pc' = "scan"
    /\ last_op' = "remove_missing_movies"
    /\ ResetDiff
    /\ UNCHANGED <<poster_vars, ranking_vars, rescraped, interrupted, languages, fs_exists, mounted, remote, repeated>>

\* the process is killed inside remove_missing_movies, after the commit of
\* delete_storage_paths and before delete_movies_without_paths
RemoveMissingMoviesKilled ==
    /\ pc = "idle"
    /\ missing_paths(movies, Locations) # {}
    /\ movies' = delete_storage_paths(movies, missing_paths(movies, Locations))
    /\ removed_movie_ids' = <<>>
    /\ pc' = "done"
    /\ last_op' = "killed"
    /\ ResetDiff
    /\ UNCHANGED <<poster_vars, ranking_vars, rescraped, interrupted, languages, fs_exists, mounted, remote, repeated>>

\* run(): process_locations(locations, self.add_or_update_stored_movies)
ProcessLocations ==
    /\ pc = "scan"
    /\ LET st == process_locations(
                     [rows |-> movies, languages |-> languages, raised |-> FALSE],
                     Locations)
       IN  /\ movies' = st.rows
           /\ languages' = st.languages
           /\ pc' = IF st.raised THEN "done" ELSE "rank"
           /\ last_op' = IF st.raised THEN "scan_raised" ELSE "process_locations"
    /\ UNCHANGED <<poster_vars, ranking_vars, rescraped, interrupted, fs_exists, mounted, remote, removed_movie_ids, notion_movies,
                   added_movies, overlapping_movies, missing_movies, calls, cleared,
                   repeated>>

\* run(): self.update_imdb_rankings(); due is is_update_due(), fetched is
\* whether the provider answered (_fetch_imdb_top_250 calls sys.exit() if not)
UpdateImdbRankings ==
    /\ pc = "rank"
    /\ \E due \in BOOLEAN, fetched \in BOOLEAN :
          /\ movies' = IF due /\ fetched THEN update_imdb_movie_rankings(movies)
                        ELSE movies
          /\ pc' = IF due /\ ~fetched THEN "done" ELSE "notion"
          /\ last_op' = IF due /\ ~fetched THEN "rank_exit" ELSE "update_imdb_rankings"
    /\ UNCHANGED <<poster_vars, ranking_vars, rescraped, interrupted, languages, fs_exists, mounted, remote, removed_movie_ids, notion_movies,
                   added_movies, overlapping_movies, missing_movies, calls, cleared,
                   repeated>>

\* run(): self.update_notion(removed_movie_ids)
UpdateNotion ==
    /\ pc = "notion"
    /\ \/ update_notion(removed_movie_ids, FALSE, <<>>)
       \/ \E outcomes \in OutcomeLists(Writes(movies, all_movies(remote))) :
             update_notion(removed_movie_ids, TRUE, outcomes)
    /\ pc' = "done"
    /\ UNCHANGED <<poster_vars, ranking_vars, rescraped, interrupted, languages, fs_exists, mounted, removed_movie_ids, repeated>>

\* the process is killed between two units of run()
Kill ==
    /\ pc \in {"scan", "rank", "notion"}
    /\ pc' = "done"
    /\ last_op' = "killed"
    /\ interrupted' = interrupted \cup Range(removed_movie_ids)
    /\ UNCHANGED <<poster_vars, ranking_vars, rescraped, languages, movies, fs_exists, mounted, remote, removed_movie_ids,
                   notion_movies, added_movies, overlapping_movies,
                   missing_movies, calls, cleared, repeated>>

\* the process has ended: what run() held in memory is gone
Return ==
    /\ pc = "done"
    /\ pc' = "idle"
    /\ removed_movie_ids' = <<>>
    /\ last_op' = "init"
    /\ ResetDiff
    /\ UNCHANGED <<poster_vars, ranking_vars, rescraped, interrupted, languages, movies, fs_exists, mounted, remote, repeated>>

-----------------------------------------------------------------------------
(* The environment, between two runs *)

Mount ==
    /\ pc = "idle"
    /\ \E mount_point \in MountPoints \ mounted : mounted' = mounted \cup {mount_point}
    /\ UNCHANGED <<poster_vars, ranking_vars, rescraped, interrupted, languages, movies, fs_exists, remote, pc, removed_movie_ids, notion_movies,
                   added_movies, overlapping_movies, missing_movies, calls, cleared,
                   last_op, repeated>>

Unmount ==
    /\ pc = "idle"
    /\ \E mount_point \in mounted : mounted' = mounted \ {mount_point}
    /\ UNCHANGED <<poster_vars, ranking_vars, rescraped, interrupted, languages, movies, fs_exists, remote, pc, removed_movie_ids, notion_movies,
                   added_movies, overlapping_movies, missing_movies, calls, cleared,
                   last_op, repeated>>

\* the folders whose sidecar document parses and has a title
ValidPaths ==
    {MovieFiles[i].movie_path :
        i \in {n \in 1..Len(MovieFiles) :
                  ~NFO_root_is_None(MovieFiles[n])
                  /\ NFO_is_valid(NFO(MovieFiles[n]))}}

\* a movie folder with a usable sidecar document is put on a disk
FileAppears ==
    /\ pc = "idle"
    /\ \E path \in ValidPaths \ fs_exists : fs_exists' = fs_exists \cup {path}
    /\ UNCHANGED <<poster_vars, ranking_vars, rescraped, interrupted, languages, movies, mounted, remote, pc, removed_movie_ids, notion_movies,
                   added_movies, overlapping_movies, missing_movies, calls, cleared,
                   last_op, repeated>>

\* a movie file is removed from a disk, or is no longer seen
FileVanishes ==
    /\ pc = "idle"
    /\ \E path \in fs_exists : fs_exists' = fs_exists \ {path}
    /\ UNCHANGED <<poster_vars, ranking_vars, rescraped, interrupted, languages, movies, mounted, remote, pc, removed_movie_ids, notion_movies,
                   added_movies, overlapping_movies, missing_movies, calls, cleared,
                   last_op, repeated>>

\* the catalog of the user: a page for movie ("A", 1), in step with its
\* sidecar document or not, and a page no local movie matches
InitPagesA ==
    [title : {Some("A")}, year : {Some(1)},
     tagline : {None, Some("t")},
     rating : {Some(Stars(4))},
     imdb_url : {None},
     rank : {None},
     locations : {<<"Wotan">>, <<"Backup">>}]

\* the store is empty, the disks hold any of the folders with a usable
\* sidecar document
Init ==
    /\ movies = <<>>
    /\ languages = {}
    /\ fs_exists \in SUBSET ValidPaths
    /\ mounted = MountPoints
    /\ \/ remote = [id \in {"r2"} |-> RemotePageC]
       \/ \E p \in InitPagesA :
             remote = [id \in {"r1", "r2"} |-> IF id = "r1" THEN p ELSE RemotePageC]
    /\ InitTransient

Next ==
    \/ RemoveMissingMovies
    \/ RemoveMissingMoviesKilled
    \/ ProcessLocations
    \/ UpdateImdbRankings
    \/ UpdateNotion
    \/ Kill
    \/ Return
    \/ Mount
    \/ Unmount
    \/ FileAppears
    \/ FileVanishes

Spec == Init /\ [][Next]_vars

-----------------------------------------------------------------------------
(* The scan on its own: folders with unusable sidecar documents as well *)

\* any movie folder is put on a disk
FolderAppears ==
    /\ pc = "idle"
    /\ \E path \in MoviePaths \ fs_exists : fs_exists' = fs_exists \cup {path}
    /\ UNCHANGED <<poster_vars, ranking_vars, rescraped, interrupted, languages, movies, mounted, remote, pc, removed_movie_ids,
                   notion_movies, added_movies, overlapping_movies,
                   missing_movies, calls, cleared, last_op, repeated>>

\* the store is empty, the disks hold any of the movie folders
InitScan ==
    /\ movies = <<>>
    /\ languages = {}
    /\ fs_exists \in SUBSET MoviePaths
    /\ mounted = MountPoints
    /\ remote = [id \in {"r2"} |-> RemotePageC]
    /\ InitTransient

\* runs that end with the scan or are killed after it
NextScan ==
    \/ RemoveMissingMovies
    \/ ProcessLocations
    \/ Kill
    \/ Return
    \/ Mount
    \/ Unmount
    \/ FolderAppears
    \/ FileVanishes

SpecScan == InitScan /\ [][NextScan]_vars

-----------------------------------------------------------------------------
(* The scan of folders whose sidecar document changes *)

\* the sidecar document of a folder of movie ("A", 1) is scraped again and
\* now holds another title
Rescrape ==
    /\ pc = "idle"
    /\ \E path \in ({"/w/a", "/f/a"} \cap fs_exists) \ rescraped :
          rescraped' = rescraped \cup {path}
    /\ UNCHANGED <<poster_vars, ranking_vars, interrupted, languages, movies,
                   fs_exists, mounted, remote, pc, removed_movie_ids,
                   notion_movies, added_movies, overlapping_movies,
                   missing_movies, calls, cleared, last_op, repeated>>

NextRescan ==
    \/ RemoveMissingMovies
    \/ ProcessLocations
    \/ Kill
    \/ Return
    \/ Unmount
    \/ Mount
    \/ FileVanishes
    \/ FolderAppears
    \/ Rescrape

SpecRescan == InitScan /\ [][NextRescan]_vars

-----------------------------------------------------------------------------
(* The classification on its own: lists whose keys repeat and collide *)

\* (title, year) pairs of which two give the same key "1-A"
CompareIdentities == {<<"A", Some(1)>>, <<"1-A", None>>, <<"A", None>>}

CompareRow(ident) ==
    [Movie(ident[1], ident[2]) EXCEPT
        !.paths = <<StoragePath("Wotan", "/w/" \o ident[1])>>]

\* pages with these keys, and a page whose title cannot be read
ComparePages ==
    {[EqualPageB EXCEPT !.title = Some(ident[1]), !.year = ident[2]] :
        ident \in CompareIdentities}
    \cup {[EqualPageB EXCEPT !.title = None, !.year = Some(1)]}

\* the store holds a (title, year) once; the catalog may hold a key twice
InitCompare ==
    /\ \E n \in 0..Cardinality(CompareIdentities) :
       \E idents \in [1..n -> CompareIdentities] :
          /\ \A i, j \in 1..n : idents[i] = idents[j] => i = j
          /\ movies = [i \in 1..n |-> CompareRow(idents[i])]
    /\ \E ids \in SUBSET Range(RemoteOrder) : remote \in [ids -> ComparePages]
    /\ languages = {}
    /\ fs_exists = MoviePaths
    /\ mounted = MountPoints
    /\ InitTransient

SpecCompare == InitCompare /\ [][NextUpdate]_vars

-----------------------------------------------------------------------------
(* MovieUpdater.backup *)

\* Movie.__repr__, which str(movie) gives
Movie_repr(movie) ==
    IF IsNone(movie.year) THEN movie.title
    ELSE movie.title \o " (" \o ToString(movie.year[1]) \o ")"

\* backup_location.get("path")
BackupFolder == "/b"

\* os.path.join(backup_folder, first_letter, str(movie)); the folder of the
\* first letter is left out of the name
target_folder(movie) == BackupFolder \o "/" \o Movie_repr(movie)

\* update_movie_locations: self.execute_update is not defined anywhere, the
\* call raises AttributeError and the catalog is not written
update_movie_locations(movie_id, locations, pages) ==
    [raised |-> TRUE, pages |-> pages]

\* the condition under which backup copies a movie
is_backup_due(movie) ==
    LET locations == Range(PathLabels(movie))
    IN  "Backup" \notin locations /\ {"Wotan", "fritzNAS"} \cap locations # {}

\* the loop of backup over local_movies, from the i-th movie on.  outcome
\* is "ok" while it runs, "caught" after shutil.Error or FileNotFoundError
\* (copytree of a source that does not exist), "raised" after any other
\* exception: FileExistsError of copytree when the target exists, and the
\* AttributeError of update_movie_locations
RECURSIVE backup_loop(_, _)
backup_loop(st, i) ==
    IF i > Len(st.rows) \/ st.outcome # "ok" THEN st
    ELSE LET movie == st.rows[i]
             source == movie.paths[1].location_path
             target == target_folder(movie)
             copied == [st EXCEPT !.fs = @ \cup {target},
                                  !.rows[i].paths =
                                      Append(@, StoragePath("Backup", target))]
             locations == Append(PathLabels(movie), "Backup")
             patched == update_movie_locations(movie.notion_id[1], locations,
                                               st.pages)
         IN  IF ~is_backup_due(movie) THEN backup_loop(st, i + 1)
             ELSE IF source \notin st.fs THEN [st EXCEPT !.outcome = "caught"]
             ELSE IF target \in st.fs THEN [st EXCEPT !.outcome = "raised"]
             ELSE IF IsNone(movie.notion_id) THEN backup_loop(copied, i + 1)
             ELSE IF patched.raised THEN [copied EXCEPT !.outcome = "raised"]
             ELSE backup_loop([copied EXCEPT !.pages = patched.pages], i + 1)

\* backup: one transaction around the loop.  After a caught exception the
\* with-block ends normally and commits what the loop did so far; any other
\* exception leaves the with-block and rolls the rows back.  Copied folders
\* stay on the disk.
backup(rows, fs, pages) ==
    LET st == backup_loop([rows |-> rows, fs |-> fs, pages |-> pages,
                           outcome |-> "ok"], 1)
    IN  [rows |-> IF st.outcome = "raised" THEN rows ELSE st.rows,
         fs |-> st.fs, pages |-> st.pages, outcome |-> st.outcome]

\* a call of MovieManager.backup
Backup ==
    /\ pc = "idle"
    /\ LET r == backup(movies, fs_exists, remote)
       IN  /\ movies' = r.rows
           /\ fs_exists' = r.fs
           /\ remote' = r.pages
           /\ last_op' = CASE r.outcome = "ok" -> "backup"
                            [] r.outcome = "caught" -> "backup_caught"
                            [] OTHER -> "backup_raised"
    /\ ResetDiff
    /\ UNCHANGED <<poster_vars, ranking_vars, rescraped, interrupted, languages, mounted, pc, removed_movie_ids, repeated>>

\* rows of movie ("A", 1) as scans leave them, linked or not
BackupRowsA ==
    [title : {"A"}, year : {Some(1)}, notion_id : {None, Some("r1")},
     imdb_id : {None}, tagline_text : {Some("t")}, rating : {Some(90)},
     rank : {None}, duration : {Some(60)}, poster_url : {None},
     languages : {{"en"}},
     paths : {<<StoragePath("Wotan", "/w/a")>>,
              <<StoragePath("fritzNAS", "/f/a")>>,
              <<StoragePath("Wotan", "/w/a"), StoragePath("fritzNAS", "/f/a")>>}]

\* the row of movie "1-A" without a year
BackupRowC ==
    [title |-> "1-A", year |-> None, notion_id |-> None, imdb_id |-> None,
     tagline_text |-> None, rating |-> Some(10), rank |-> None,
     duration |-> None, poster_url |-> None, languages |-> {"en"},
     paths |-> <<StoragePath("Wotan", "/w/c")>>]

\* the page of movie ("A", 1), with a location only the catalog lists or not
BackupPagesA ==
    [title : {Some("A")}, year : {Some(1)}, tagline : {Some("t")},
     rating : {Some(Stars(4))}, imdb_url : {None}, rank : {None},
     locations : {<<"Wotan">>, <<"Wotan", "Keller">>}]

\* a store with one or two movies, the disks hold any of their folders
InitBackup ==
    /\ \E a \in BackupRowsA : movies \in {<<a>>, <<a, BackupRowC>>, <<BackupRowC, a>>}
    /\ \E p \in BackupPagesA :
          remote = [id \in {"r1", "r2"} |-> IF id = "r1" THEN p ELSE RemotePageC]
    /\ languages = {"en"}
    /\ fs_exists \in SUBSET ValidPaths
    /\ mounted = MountPoints
    /\ InitTransient

NextBackup ==
    \/ Backup
    \/ FileAppears
    \/ FileVanishes

SpecBackup == InitBackup /\ [][NextBackup]_vars

-----------------------------------------------------------------------------
(* MoviePosterRepository *)

\* the external ids asked for, the most lookups of a run that are followed,
\* and what fetch_movie_details can return: a URL, or None when the request
\* fails or the answer holds no poster
PosterIds == {"tt1", "tt2", "tt3"}

MaxLookups == 3

PosterAnswers == {None, Some("p")}

\* get_movie_poster_url with the cache and the lookups made so far; answer
\* is what fetch_movie_details returns if it is called
poster_lookup(cache, made, imdb_id, answer) ==
    IF IsNone(imdb_id) THEN [cache |-> cache, lookups |-> made]
    ELSE IF dict_has(cache, imdb_id[1]) THEN [cache |-> cache, lookups |-> made]
    ELSE [cache |-> IF ~IsNone(answer) /\ answer # Some("")
                    THEN dict_put(cache, imdb_id[1], answer[1]) ELSE cache,
          lookups |-> Append(made, imdb_id[1])]

\* a call of get_movie_poster_url
GetMoviePosterUrl ==
    /\ Len(lookups) < MaxLookups
    /\ \E imdb_id \in {None} \cup {Some(id) : id \in PosterIds},
          answer \in PosterAnswers :
          LET r == poster_lookup(poster_cache, lookups, imdb_id, answer)
          IN  /\ poster_cache' = r.cache
              /\ lookups' = r.lookups
    /\ UNCHANGED <<ranking_vars, interrupted, rescraped, movies, languages, fs_exists,
                   mounted, remote, pc, removed_movie_ids, notion_movies, added_movies,
                   overlapping_movies, missing_movies, calls, cleared, repeated,
                   last_op>>

\* MoviePosterRepository.__init__: the cache of a run starts empty
InitPoster ==
    /\ movies = <<>>
    /\ languages = {}
    /\ fs_exists = {}
    /\ mounted = MountPoints
    /\ remote = [id \in {"r2"} |-> RemotePageC]
    /\ InitTransient

NextPoster == GetMoviePosterUrl

SpecPoster == InitPoster /\ [][NextPoster]_vars

-----------------------------------------------------------------------------
(* ImdbRepository: the cache file of the ranking list *)

\* imdb.FILE_AGE_TRESHOLD
FILE_AGE_TRESHOLD == 90

\* the seconds of a day
SecondsPerDay == 86400

\* the ages of the cache file that are followed, in seconds: new, 36
\* minutes, a second more, a day, 90 days, a second more
Ages == {0, 2160, 2161, SecondsPerDay, 90 * SecondsPerDay, 90 * SecondsPerDay + 1}

\* get_file_age_in_days: time_difference_in_seconds / 24, as a fraction
get_file_age_in_days(seconds) == [num |-> seconds, den |-> 24]

\* is_update_due: not os.path.exists(MOVIE_CACHE) or
\* get_file_age_in_days(MOVIE_CACHE) > FILE_AGE_TRESHOLD
is_update_due(file, seconds) ==
    \/ IsNone(file)
    \/ get_file_age_in_days(seconds).num
           > FILE_AGE_TRESHOLD * get_file_age_in_days(seconds).den

\* the cache file of earlier runs: absent, or a complete list of any age
InitRanking ==
    /\ movies = <<>>
    /\ languages = {}
    /\ fs_exists = {}
    /\ mounted = MountPoints
    /\ remote = [id \in {"r2"} |-> RemotePageC]
    /\ pc = "idle"
    /\ removed_movie_ids = <<>>
    /\ notion_movies = <<>>
    /\ added_movies = <<>>
    /\ overlapping_movies = <<>>
    /\ missing_movies = <<>>
    /\ calls = <<>>
    /\ cleared = FALSE
    /\ repeated = FALSE
    /\ last_op = "init"
    /\ poster_cache = <<>>
    /\ lookups = <<>>
    /\ \/ cache_file = None /\ cache_age = 0
       \/ cache_file = Some("complete") /\ cache_age \in Ages
    /\ previous_file = cache_file
    /\ load_pc = "idle"
    /\ interrupted = {}
    /\ rescraped = {}

RankingFrame ==
    UNCHANGED <<poster_vars, interrupted, rescraped, movies, languages, fs_exists, mounted,
                remote, pc, removed_movie_ids, notion_movies, added_movies,
                overlapping_movies, missing_movies, calls, cleared, repeated,
                last_op>>

\* _load_ranking: "if self.is_update_due():"; else the file is loaded
LoadRanking ==
    /\ load_pc = "idle"
    /\ load_pc' = IF is_update_due(cache_file, cache_age) THEN "fetch" ELSE "loaded"
    /\ UNCHANGED <<cache_file, cache_age, previous_file>>
    /\ RankingFrame

\* _fetch_imdb_top_250: the list, or sys.exit() when the request fails
FetchImdbTop250 ==
    /\ load_pc = "fetch"
    /\ \E fetched \in BOOLEAN : load_pc' = IF fetched THEN "remove" ELSE "idle"
    /\ previous_file' = cache_file
    /\ UNCHANGED <<cache_file, cache_age>>
    /\ RankingFrame

\* save_json: "if os.path.exists(path_to_file): os.remove(path_to_file)"
SaveJsonRemove ==
    /\ load_pc = "remove"
    /\ cache_file' = None
    /\ load_pc' = "open"
    /\ UNCHANGED <<cache_age, previous_file>>
    /\ RankingFrame

\* save_json: open(path_to_file, "w") creates the file, empty
SaveJsonOpen ==
    /\ load_pc = "open"
    /\ cache_file' = Some("empty")
    /\ cache_age' = 0
    /\ load_pc' = "write"
    /\ UNCHANGED previous_file
    /\ RankingFrame

\* save_json: file.write(json_object) and the end of the with-block
SaveJsonWrite ==
    /\ load_pc = "write"
    /\ cache_file' = Some("complete")
    /\ load_pc' = "loaded"
    /\ UNCHANGED <<cache_age, previous_file>>
    /\ RankingFrame

\* the process ends: after the rankings were used, or killed inside
\* _load_ranking
RankingEnds ==
    /\ load_pc # "idle"
    /\ load_pc' = "idle"
    /\ UNCHANGED <<cache_file, cache_age, previous_file>>
    /\ RankingFrame

\* time passes between two runs
TimePasses ==
    /\ load_pc = "idle"
    /\ ~IsNone(cache_file)
    /\ \E seconds \in Ages : seconds > cache_age /\ cache_age' = seconds
    /\ UNCHANGED <<cache_file, previous_file, load_pc>>
    /\ RankingFrame

NextRanking ==
    \/ LoadRanking
    \/ FetchImdbTop250
    \/ SaveJsonRemove
    \/ SaveJsonOpen
    \/ SaveJsonWrite
    \/ RankingEnds
    \/ TimePasses

SpecRanking == InitRanking /\ [][NextRanking]_vars

-----------------------------------------------------------------------------
(* The run after a movie folder was moved inside its location *)

\* the path the folder "/w/a" had when it was scanned first
OldPath == "/w/x"

\* the row the scan stored for the folder at its old path, linked to the
\* record "r1" by an earlier diff pass
MovedStore ==
    LET st == add_or_update_movie([rows |-> <<>>, languages |-> {}, raised |-> FALSE],
                                  NFO(MovieFiles[1]), "Wotan", OldPath)
    IN  [st EXCEPT !.rows = set_notion_id(st.rows, st.rows[1], "r1")]

\* the record of movie ("A", 1) holds the label of the location
MovedPages ==
    [title : {Some("A")}, year : {Some(1)},
     tagline : {None, Some("t")},
     rating : {Some(Stars(4))},
     imdb_url : {None},
     rank : {None},
     locations : {<<"Wotan">>, <<"Backup", "Wotan">>}]

\* the folder is at "/w/a" now and no longer at its old path
InitMove ==
    /\ movies = MovedStore.rows
    /\ languages = MovedStore.languages
    /\ fs_exists \in {S \in SUBSET ValidPaths : "/w/a" \in S}
    /\ mounted = MountPoints
    /\ \E p \in MovedPages :
          remote = [id \in {"r1", "r2"} |-> IF id = "r1" THEN p ELSE RemotePageC]
    /\ InitTransient

NextMove ==
    \/ RemoveMissingMovies
    \/ ProcessLocations
    \/ UpdateImdbRankings
    \/ UpdateNotion
    \/ Return

SpecMove == InitMove /\ [][NextMove]_vars

-----------------------------------------------------------------------------
(* The create payload: one movie the catalog does not hold, any rating *)

MaxRating == 100

\* ratings in tenths, 0.0 to 10.0
Ratings == 0..MaxRating

CreateRows ==
    [title : {"A"}, year : {Some(1)}, notion_id : {None}, imdb_id : {None},
     tagline_text : {None},
     rating : {None} \cup {Some(r) : r \in Ratings},
     rank : {None}, duration : {None}, poster_url : {None}, languages : {{}},
     paths : {<<StoragePath("Wotan", "/w/a")>>}]

InitCreate ==
    /\ \E a \in CreateRows : movies = <<a>>
    /\ remote = [id \in {"r1"} |-> RemotePageC]
    /\ languages = {}
    /\ fs_exists = MoviePaths
    /\ mounted = MountPoints
    /\ InitTransient

NextCreate == UpdateNotionCall

SpecCreate == InitCreate /\ [][NextCreate]_vars

-----------------------------------------------------------------------------
(* Properties *)

Count(seq, k) == Cardinality({i \in 1..Len(seq) : seq[i] = k})

LocalKeys == {Movie_unique_key(movies[i]) : i \in 1..Len(movies)}
RemoteKeys == {NotionMovie_unique_key(notion_movies[i]) : i \in 1..Len(notion_movies)}
AddedKeys == [i \in 1..Len(added_movies) |-> Movie_unique_key(added_movies[i])]
OverlappingKeys ==
    [i \in 1..Len(overlapping_movies) |->
        Movie_unique_key(overlapping_movies[i].local_movie)]
MissingKeys ==
    [i \in 1..Len(missing_movies) |-> NotionMovie_unique_key(missing_movies[i])]

\* compare_movies has run in the latest operation
Compared == last_op \in {"update_notion", "update_raised"}

\* C1: compare_movies puts every unique key of the local list or of the
\* remote list into exactly one class, once: added when only local,
\* overlapping when in both (paired with a record of the same key), missing
\* when only remote; the classes hold no other key.
C1_Partition ==
    Compared =>
        /\ \A k \in LocalKeys \cup RemoteKeys :
              Count(AddedKeys, k) + Count(OverlappingKeys, k) + Count(MissingKeys, k) = 1
        /\ \A k \in LocalKeys \ RemoteKeys : Count(AddedKeys, k) = 1
        /\ \A k \in LocalKeys \cap RemoteKeys : Count(OverlappingKeys, k) = 1
        /\ \A k \in RemoteKeys \ LocalKeys : Count(MissingKeys, k) = 1
        /\ Range(AddedKeys) \cup Range(OverlappingKeys) \cup Range(MissingKeys)
              \subseteq LocalKeys \cup RemoteKeys
        /\ \A i \in 1..Len(overlapping_movies) :
              NotionMovie_unique_key(overlapping_movies[i].notion_movie)
                  = OverlappingKeys[i]

\* all three classes are inhabited, two local movies share a key and two
\* pages share a key
C1_Witness ==
    /\ Compared
    /\ added_movies # <<>> /\ overlapping_movies # <<>> /\ missing_movies # <<>>
    /\ Cardinality(LocalKeys) < Len(movies)
    /\ Cardinality(RemoteKeys) < Len(notion_movies)

-----------------------------------------------------------------------------
(* The field comparison, as the specification words it *)

DerivedUrl(local_movie) ==
    IF IsNone(local_movie.imdb_id) THEN None
    ELSE Some(ImdbUrl(local_movie.imdb_id[1]))

\* the star string of a local rating; no rating gives no star
DerivedStars(local_movie) ==
    IF IsNone(local_movie.rating) THEN ""
    ELSE Stars(round(local_movie.rating[1], 20))

\* the star string of the select of a record; an empty select is no star
SelectedStars(notion_movie) ==
    IF IsNone(notion_movie.rating) THEN "" ELSE notion_movie.rating[1]

FieldsEqual(local_movie, notion_movie) ==
    /\ Range(PathLabels(local_movie)) \subseteq Range(notion_movie.locations)
    /\ local_movie.tagline_text = notion_movie.tagline
    /\ DerivedUrl(local_movie) = notion_movie.imdb_url
    /\ DerivedStars(local_movie) = SelectedStars(notion_movie)
    /\ local_movie.rank = notion_movie.rank

CallsTo(id) == {j \in 1..Len(calls) : calls[j].id = id}

\* C2: after a diff pass, an overlapping pair whose compared fields are all
\* equal (locations contain every local label, tagline, derived URL, derived
\* stars against the select with zero stars equal to an empty select, rank)
\* has received no patch call.
C2_NoPatchWhenEqual ==
    Compared =>
        \A i \in 1..Len(overlapping_movies) :
            FieldsEqual(overlapping_movies[i].local_movie,
                        overlapping_movies[i].notion_movie)
                => CallsTo(overlapping_movies[i].notion_movie.id) = {}

\* C3: a diff pass that starts in the state left by a pass whose remote
\* calls all succeeded, with the local store untouched in between, issues no
\* remote call.
C3_SecondPassSilent ==
    (repeated /\ Compared) => calls = <<>>

\* the create calls that carry the title and the year of a local movie
CreatesOf(local_movie) ==
    {j \in 1..Len(calls) :
        /\ calls[j].op = "create"
        /\ calls[j].properties["Titel"] = Some(local_movie.title)
        /\ IF IsNone(local_movie.year) THEN "Jahr" \notin DOMAIN calls[j].properties
           ELSE /\ "Jahr" \in DOMAIN calls[j].properties
                /\ calls[j].properties["Jahr"] = local_movie.year}

\* C4: after a completed diff pass every movie classified as added has one
\* create call with its title and year, and when that call succeeded the row
\* of the movie holds a remote id.
C4_AddedCreated ==
    last_op = "update_notion" =>
        \A i \in 1..Len(added_movies) :
            /\ Cardinality(CreatesOf(added_movies[i])) = 1
            /\ \A j \in CreatesOf(added_movies[i]) :
                  calls[j].result = "ok" =>
                      \E k \in 1..Len(movies) :
                          /\ movies[k].title = added_movies[i].title
                          /\ movies[k].year = added_movies[i].year
                          /\ ~IsNone(movies[k].notion_id)

\* the label belongs to a location whose declared mount point is not mounted
Unmounted(label) ==
    \E i \in 1..Len(Locations) :
        /\ Locations[i].label = label
        /\ ~IsNone(Locations[i].mount_point)
        /\ Locations[i].mount_point[1] \notin mounted

\* the row of rows with the identity of movie, if any
RowsOf(rows, movie) ==
    {i \in 1..Len(rows) : rows[i].title = movie.title /\ rows[i].year = movie.year}

\* remove_missing_movies is entered in this step (and may be cut short)
PruneStep == pc = "idle" /\ pc' # "idle"

\* remove_missing_movies runs from its first to its last line in this step
PruneDone == pc = "idle" /\ pc' = "scan"

C6_NoPathlessAfterPrune ==
    pc = "scan" => \A i \in 1..Len(movies) : movies[i].paths # <<>>

\* the rows a prune step deletes
Deleted == {i \in 1..Len(movies) : RowsOf(movies', movies[i]) = {}}

\* the non-null remote ids of the deleted rows, in the order of the rows
RECURSIVE DeletedIds(_)
DeletedIds(i) ==
    IF i > Len(movies) THEN <<>>
    ELSE IF i \in Deleted /\ ~IsNone(movies[i].notion_id)
         THEN <<movies[i].notion_id[1]>> \o DeletedIds(i + 1)
         ELSE DeletedIds(i + 1)

\* C7: a prune pass deletes a movie whose only path lies under a mounted
\* location and is gone from disk, together with that path; the list it
\* returns is the non-null remote ids of the movies it deleted, and it holds
\* no remote id of a movie that survives.
C7_ReturnsDeletedIds ==
    [][PruneDone =>
        /\ \A i \in 1..Len(movies) :
              (/\ Len(movies[i].paths) = 1
               /\ ~Unmounted(movies[i].paths[1].label)
               /\ ~exists(movies[i].paths[1].location_path))
              => /\ i \in Deleted
                 /\ \A n \in 1..Len(movies') :
                       movies[i].paths[1] \notin Range(movies'[n].paths)
        /\ removed_movie_ids' = DeletedIds(1)
        /\ \A n \in 1..Len(movies') :
              IsNone(movies'[n].notion_id)
              \/ movies'[n].notion_id[1] \notin Range(removed_movie_ids')]_vars

\* update_notion has been called by run() and the run has ended with it
AfterUpdateNotion ==
    pc = "done"
    /\ last_op \in {"clear_raised", "load_raised", "update_raised", "update_notion"}

\* C8: when the update_notion step of a run is over, the locations of every
\* record whose id the prune pass returned were cleared before the load: the
\* clearing returned, the record is in the loaded list, and its locations
\* are empty there.
C8_ClearedBeforeDiff ==
    AfterUpdateNotion =>
        \A j \in 1..Len(removed_movie_ids) :
            /\ cleared
            /\ removed_movie_ids[j] \in DOMAIN remote
            /\ last_op # "load_raised" =>
                  \E n \in 1..Len(notion_movies) :
                      /\ notion_movies[n].id = removed_movie_ids[j]
                      /\ notion_movies[n].locations = <<>>

\* C9: no step removes a page from the catalog, and a diff pass leaves every
\* record it classifies as missing as it was and sends no call for it.
C9_MissingUntouched ==
    [][/\ DOMAIN remote \subseteq DOMAIN remote'
       /\ Compared' =>
             \A i \in 1..Len(missing_movies') :
                 /\ remote'[missing_movies'[i].id] = remote[missing_movies'[i].id]
                 /\ \A j \in 1..Len(calls') :
                       calls'[j].id # missing_movies'[i].id]_vars

\* a pass has patched a record and has listed another as missing
C9_Witness ==
    /\ Compared
    /\ missing_movies # <<>>
    /\ \E j \in 1..Len(calls) : calls[j].result = "ok"

\* the locations a patch call sends, against those the record had when it
\* was loaded and the labels of the local movie of the pair
LocationsAppended(call, pair) ==
    LET before == pair.notion_movie.locations
        labels == Range(PathLabels(pair.local_movie))
        sent == call.properties["Speicherorte"]
    IN  /\ Len(sent) >= Len(before)
        /\ SubSeq(sent, 1, Len(before)) = before
        /\ Range(sent) = Range(before) \cup labels
        /\ Len(sent) = Len(before) + Cardinality(labels \ Range(before))
        /\ call.result = "ok" => remote[call.id].locations = sent

\* C10: every patch call of a diff pass belongs to an overlapping pair and
\* sends as locations the locations the record had before the pass, in
\* their order, followed by each local label that was missing, once; an
\* accepted patch leaves the record with that value.
C10_LocationsAppended ==
    Compared =>
        \A j \in 1..Len(calls) :
            /\ \E i \in 1..Len(overlapping_movies) :
                  overlapping_movies[i].notion_movie.id = calls[j].id
            /\ \A i \in 1..Len(overlapping_movies) :
                  overlapping_movies[i].notion_movie.id = calls[j].id
                      => LocationsAppended(calls[j], overlapping_movies[i])

\* an accepted patch has added a label to a record that listed others
C10_Witness ==
    /\ Compared
    /\ \E j \in 1..Len(calls) : \E i \in 1..Len(overlapping_movies) :
          /\ overlapping_movies[i].notion_movie.id = calls[j].id
          /\ calls[j].result = "ok"
          /\ overlapping_movies[i].notion_movie.locations # <<>>
          /\ calls[j].properties["Speicherorte"]
                # overlapping_movies[i].notion_movie.locations

-----------------------------------------------------------------------------
(* What a patch carries *)

\* the diff pass has run to its end
PassDone == last_op = "update_notion"

\* C11: after a completed diff pass, an overlapping pair whose local tagline
\* differs from the tagline of the record (a null local tagline against a
\* remote one included) has received a patch, and when the patch was
\* accepted the remote tagline is the local one, null if the local one is.
C11_TaglineOverwritten ==
    PassDone =>
        \A i \in 1..Len(overlapping_movies) :
            LET local_movie == overlapping_movies[i].local_movie
                notion_movie == overlapping_movies[i].notion_movie
            IN  local_movie.tagline_text # notion_movie.tagline =>
                    /\ CallsTo(notion_movie.id) # {}
                    /\ \A j \in CallsTo(notion_movie.id) :
                          calls[j].result = "ok" =>
                              remote[notion_movie.id].tagline
                                  = local_movie.tagline_text

\* num / den rounded to the nearest integer, a half rounded up
RoundHalfUp(num, den) == (2 * num + den) \div (2 * den)

\* C12: the star string a patch carries for a local rating is rating / 2
\* rounded with a half going up, so that 9.0 gives five stars.
C12_StarsRounded ==
    PassDone =>
        \A i \in 1..Len(overlapping_movies) :
            LET local_movie == overlapping_movies[i].local_movie
                id == overlapping_movies[i].notion_movie.id
            IN  ~IsNone(local_movie.rating) =>
                    \A j \in CallsTo(id) :
                        "Rating" \in DOMAIN calls[j].properties =>
                            calls[j].properties["Rating"]
                                = Some(Stars(RoundHalfUp(local_movie.rating[1], 20)))

\* C13: after a completed diff pass, an overlapping pair with no local
\* rating (null or zero) and a star string in the remote select has
\* received a patch, and when the patch was accepted the select is empty.
C13_RatingCleared ==
    PassDone =>
        \A i \in 1..Len(overlapping_movies) :
            LET local_movie == overlapping_movies[i].local_movie
                notion_movie == overlapping_movies[i].notion_movie
            IN  (/\ IsNone(local_movie.rating) \/ local_movie.rating = Some(0)
                 /\ ~IsNone(notion_movie.rating))
                => /\ CallsTo(notion_movie.id) # {}
                   /\ \A j \in CallsTo(notion_movie.id) :
                         calls[j].result = "ok" =>
                             IsNone(remote[notion_movie.id].rating)

\* the property keys of the compared fields in which a pair differs
DifferingKeys(local_movie, notion_movie) ==
    (IF Range(PathLabels(local_movie)) \subseteq Range(notion_movie.locations)
     THEN {} ELSE {"Speicherorte"})
    \cup (IF local_movie.tagline_text = notion_movie.tagline
          THEN {} ELSE {"Handlung"})
    \cup (IF DerivedUrl(local_movie) = notion_movie.imdb_url THEN {} ELSE {"Imdb"})
    \cup (IF DerivedStars(local_movie) = SelectedStars(notion_movie)
          THEN {} ELSE {"Rating"})
    \cup (IF local_movie.rank = notion_movie.rank THEN {} ELSE {"Rang"})

\* C14: a patch for an overlapping pair that differs in exactly one compared
\* field carries the key of that field and no other property.
C14_OnlyChangedKey ==
    Compared =>
        \A i \in 1..Len(overlapping_movies) :
            LET keys == DifferingKeys(overlapping_movies[i].local_movie,
                                      overlapping_movies[i].notion_movie)
            IN  Cardinality(keys) = 1 =>
                    \A j \in CallsTo(overlapping_movies[i].notion_movie.id) :
                        DOMAIN calls[j].properties = keys


-----------------------------------------------------------------------------
(* The upsert and the scan *)

\* the label of the location a folder lies under
LabelOf(file) ==
    LET i == CHOOSE n \in 1..Len(Locations) : Locations[n].path = file.root
    IN  Locations[i].label

\* the folders add_or_update_movie is called for
ValidFiles ==
    {n \in 1..Len(MovieFiles) : MovieFiles[n].movie_path \in ValidPaths}

\* the store as a scan finds it
Store == [rows |-> movies, languages |-> languages, raised |-> FALSE]

\* the store after add_or_update_movie was applied to it for a folder
Upserted(st, file) ==
    add_or_update_movie([st EXCEPT !.raised = FALSE], NFO(file), LabelOf(file),
                        file.movie_path)

\* how many rows of movies have the title and year, and how many rows of
\* storage_paths have the path
MoviesWith(rows, title, year) ==
    Cardinality({i \in 1..Len(rows) : rows[i].title = title /\ rows[i].year = year})

StoragePathsWith(rows, path) ==
    Cardinality(UNION {{<<i, k>> : k \in {n \in 1..Len(rows[i].paths) :
                                              rows[i].paths[n].location_path = path}} :
                       i \in 1..Len(rows)})

\* C15: applying add_or_update_movie twice with the same metadata, label
\* and path leaves exactly one Movie for the (title, year) and exactly one
\* StoragePath for the path (the languages of a movie are a set here, so a
\* language is associated at most once by construction)
C15_UpsertIdempotent ==
    \A n \in ValidFiles :
        LET file == MovieFiles[n]
            twice == Upserted(Upserted(Store, file), file)
        IN  /\ MoviesWith(twice.rows, file.title[1], file.year) = 1
            /\ StoragePathsWith(twice.rows, file.movie_path) = 1


\* a column that holds a value holds the same value afterwards
Kept(before, after) ==
    /\ ~IsNone(before.duration) => after.duration = before.duration
    /\ ~IsNone(before.rating) => after.rating = before.rating
    /\ ~IsNone(before.imdb_id) => after.imdb_id = before.imdb_id
    /\ ~IsNone(before.poster_url) => after.poster_url = before.poster_url
    /\ (~IsNone(before.tagline_text) /\ before.tagline_text # Some(""))
          => after.tagline_text = before.tagline_text

\* movies with every column set or unset, and sidecar documents and poster
\* answers with other values, present or not
FilledMovies ==
    [title : {"A"}, year : {Some(1)}, notion_id : {None}, rank : {None},
     paths : {<<>>}, languages : {{}},
     duration : {None, Some(60)}, rating : {None, Some(0), Some(90)},
     imdb_id : {None, Some("tt1")}, poster_url : {None, Some("p-0")},
     tagline_text : {None, Some(""), Some("t")}]

LaterDocuments ==
    [title : {Some("A")}, year : {Some(1)}, languages : {<<>>},
     duration : {None, Some(61)}, rating : {None, Some(10)},
     imdb_id : {None, Some("tt2")}, tagline_text : {None, Some("u")}]

LaterPosters == [{"tt1", "tt2"} -> {None, Some("p-1")}]

FillKeeps ==
    \A movie \in FilledMovies, nfo \in LaterDocuments, posters \in LaterPosters :
        Kept(movie, fill_unset(movie, nfo, posters))

\* the step of the scan
ScanStep == pc = "scan" /\ last_op' \in {"process_locations", "scan_raised"}

ScanKeeps ==
    \A i \in 1..Len(movies) : \A j \in 1..Len(movies') :
        (movies'[j].title = movies[i].title /\ movies'[j].year = movies[i].year)
            => Kept(movies[i], movies'[j])

\* C16: once duration, rating, external id, poster URL or a non-empty
\* tagline of a movie holds a value, no later upsert of the same (title,
\* year) changes it, whatever the later sidecar document contains
C16_FirstWriteWins == [][ScanStep => (ScanKeeps /\ FillKeeps)]_vars

\* a scan has upserted movie ("A", 1) from both of its folders, whose
\* documents differ, and the movie holds the values of one of them
C16_Witness ==
    /\ last_op = "process_locations"
    /\ \E i \in 1..Len(movies) :
          /\ {movies[i].paths[k].location_path : k \in 1..Len(movies[i].paths)}
                = {"/w/a", "/f/a"}
          /\ movies[i].paths[1].location_path = "/w/a"
          /\ movies[i].rating = Some(90)
          /\ movies[i].duration = Some(60)
          /\ movies[i].tagline_text = Some("t")


\* the folder exists under a location that process_locations does not skip
Scanned(file) ==
    /\ exists(file.movie_path)
    /\ \E i \in 1..Len(Locations) :
          /\ Locations[i].path = file.root
          /\ ~is_skipped(Locations[i])

\* the paths in table storage_paths
StoredPaths(rows) ==
    UNION {{rows[i].paths[k].location_path : k \in 1..Len(rows[i].paths)} :
           i \in 1..Len(rows)}

\* every scanned sidecar document parses
AllParse ==
    \A n \in 1..Len(MovieFiles) :
        Scanned(MovieFiles[n]) => ~NFO_root_is_None(MovieFiles[n])

\* the document names no language twice: its upsert violates no constraint
UpsertReturns(file) ==
    Cardinality(Range(file.languages)) = Len(file.languages)

\* C17: when the upsert of one folder raises, the scan continues: every
\* other scanned folder with a usable sidecar document is upserted in the
\* same run
C17_ScanContinues ==
    [][(ScanStep /\ AllParse) =>
          \A n \in ValidFiles :
              (Scanned(MovieFiles[n]) /\ UpsertReturns(MovieFiles[n]))
                  => MovieFiles[n].movie_path \in StoredPaths(movies')]_vars


\* no scanned folder has a document whose upsert violates a constraint
AllUpsertsReturn ==
    \A n \in ValidFiles : Scanned(MovieFiles[n]) => UpsertReturns(MovieFiles[n])

\* a scanned folder has a document that is malformed or has no title
SomeUnusable ==
    \E n \in 1..Len(MovieFiles) \ ValidFiles : Scanned(MovieFiles[n])

\* C18: a sidecar document that is malformed or has no title makes the scan
\* skip that folder without storing anything for it, and the scan goes on:
\* the scan returns and the following folders are upserted
C18_UnusableSkipped ==
    [][(ScanStep /\ AllUpsertsReturn /\ SomeUnusable) =>
          /\ last_op' = "process_locations"
          /\ \A n \in 1..Len(MovieFiles) :
                Scanned(MovieFiles[n]) =>
                    (MovieFiles[n].movie_path \in StoredPaths(movies')
                        <=> n \in ValidFiles)]_vars


-----------------------------------------------------------------------------
(* Failures of the remote catalog and of the providers *)

\* the catalog answered a patch of the pass with a non-success status
SomeRejected == \E j \in 1..Len(calls) : calls[j].result = "rejected"

\* C19: when the catalog rejects the patch of one overlapping movie, the
\* pass does not retry it, goes on to diff and patch the remaining
\* overlapping movies (it runs to its end), and commits the notion_id fixes
\* it made
C19_RejectedPatchSkipped ==
    (Compared /\ SomeRejected) =>
        /\ last_op = "update_notion"
        /\ \A j \in 1..Len(calls) : Cardinality(CallsTo(calls[j].id)) = 1
        /\ \A i \in 1..Len(overlapping_movies) :
              LET pair == overlapping_movies[i]
              IN  /\ diff_pair(pair.local_movie, pair.notion_movie).had_changes
                        => CallsTo(pair.notion_movie.id) # {}
                  /\ \E k \in 1..Len(movies) :
                        /\ movies[k].title = pair.local_movie.title
                        /\ movies[k].year = pair.local_movie.year
                        /\ movies[k].notion_id = Some(pair.notion_movie.id)


\* run() is over and was neither killed from outside nor ended by an error
\* of the scan or of the clearing of pruned records
RunOver == pc = "done" /\ last_op \notin {"killed", "scan_raised", "clear_raised"}

\* C20: a run always reaches its end and returns to its caller: a failed
\* fetch of the ranking list, a failed load of the catalog or a failed patch
\* neither terminates the process nor aborts the run
C20_RunReturns == RunOver => last_op = "update_notion"


-----------------------------------------------------------------------------
(* The backup *)

\* a step of backup: the only folders that appear are backup targets
BackupStep ==
    /\ last_op' \in {"backup", "backup_caught", "backup_raised"}
    /\ fs_exists \subseteq fs_exists'
    /\ (fs_exists' \ fs_exists) \cap ValidPaths = {}

\* the movies backup has to copy, and those whose source folder is missing
DueMovies == {i \in 1..Len(movies) : is_backup_due(movies[i])}

SourceMissing(i) == movies[i].paths[1].location_path \notin fs_exists

\* the movie is copied and registered under "Backup" after the step
BackedUp(i) ==
    /\ target_folder(movies[i]) \in fs_exists'
    /\ i \in 1..Len(movies')
    /\ StoragePath("Backup", target_folder(movies[i])) \in Range(movies'[i].paths)

\* no due movie is linked to a record and no target folder exists yet
PlainBackup ==
    \A i \in DueMovies :
        IsNone(movies[i].notion_id) /\ target_folder(movies[i]) \notin fs_exists

\* C21: in a backup run in which the copy of one movie fails, every other
\* eligible movie is still copied and registered, those copied before the
\* failure included
C21_BackupContinues ==
    [][(BackupStep /\ PlainBackup /\ \E i \in DueMovies : SourceMissing(i)) =>
          \A i \in DueMovies : ~SourceMissing(i) => BackedUp(i)]_vars


\* the folder of the movie is copied in the step
Copied(i) == target_folder(movies[i]) \in fs_exists' \ fs_exists

\* C22: when backup copies a movie that has a notion_id, the locations of
\* its record afterwards contain "Backup" and every label the record listed
\* before
C22_BackupKeepsLabels ==
    [][BackupStep =>
          \A i \in 1..Len(movies) :
              (Copied(i) /\ ~IsNone(movies[i].notion_id)
                 /\ movies[i].notion_id[1] \in DOMAIN remote)
                  => Range(remote[movies[i].notion_id[1]].locations) \cup {"Backup"}
                       \subseteq Range(remote'[movies[i].notion_id[1]].locations)]_vars


-----------------------------------------------------------------------------
(* The poster cache and the ranking cache *)

\* how often the provider was asked for the id
LookupsOf(id) == Cardinality({j \in 1..Len(lookups) : lookups[j] = id})

\* C23: within a run, at most one provider lookup is made per external id,
\* also when the lookup fails or returns no poster
C23_OneLookupPerId == \A id \in PosterIds : LookupsOf(id) <= 1


\* C24: the refresh-due predicate is true exactly when the cache file is
\* absent or older than 90 days; a file of one day is fresh
C24_DueAfter90Days ==
    is_update_due(cache_file, cache_age)
        <=> (IsNone(cache_file) \/ cache_age > FILE_AGE_TRESHOLD * SecondsPerDay)

\* C25: at every point of a refresh, a crash between two of its steps
\* included, the cache file holds the complete previous list or the
\* complete new one, never no file and never a partial one
C25_RefreshAtomic ==
    ~IsNone(previous_file) => cache_file = Some("complete")


-----------------------------------------------------------------------------
(* Interrupted runs, transactions and the identity of paths *)

\* no local movie is linked to the record or has its key
Unmatched(id) ==
    \A i \in 1..Len(movies) :
        /\ movies[i].notion_id # Some(id)
        /\ Movie_unique_key(movies[i])
              # NotionMovie_unique_key(NotionMovie(id, remote[id]))

\* a run has gone through all of its units
RunComplete == pc = "done" /\ last_op = "update_notion"

\* C26: when a run stops after the prune pass has committed and before the
\* remote locations were cleared, the next complete run leaves the catalog
\* as an uninterrupted run would have: the locations of the records of the
\* pruned movies are cleared
C26_ResumeClears ==
    RunComplete =>
        \A id \in interrupted \cap DOMAIN remote :
            Unmatched(id) => remote[id].locations = <<>>


\* C27: the last StoragePath of a movie and the movie are deleted in one
\* transaction: no committed state of the store, inside or after a prune
\* pass, holds a movie without a StoragePath
C27_NoPathlessCommitted == \A i \in 1..Len(movies) : movies[i].paths # <<>>


\* the owner of a stored path is not the movie its sidecar document names
OwnerDiffers(path) ==
    \E i \in 1..Len(movies), n \in 1..Len(CurrentFiles) :
        /\ path \in {movies[i].paths[k].location_path : k \in 1..Len(movies[i].paths)}
        /\ CurrentFiles[n].movie_path = path
        /\ CurrentFiles[n].title # Some(movies[i].title)

\* C28: after any sequence of upserts and prune passes no two StoragePath
\* entries have the same path, also when a registered path is scanned again
\* with a sidecar document of another (title, year); a StoragePath is an
\* entry of one movie with one label, so it belongs to exactly one Movie and
\* one StorageLocation
C28_PathsUnique ==
    \A i \in 1..Len(movies), j \in 1..Len(movies) :
        \A k \in 1..Len(movies[i].paths), n \in 1..Len(movies[j].paths) :
            movies[i].paths[k].location_path = movies[j].paths[n].location_path
                => (i = j /\ k = n)

\* a scan has met a registered folder whose document names another movie
C28_Witness ==
    /\ last_op = "scan_raised"
    /\ \E path \in rescraped \cap fs_exists :
          /\ path \in StoredPaths(movies)
          /\ OwnerDiffers(path)
          /\ \A n \in 1..Len(MovieFiles) :
                MovieFiles[n].movie_path = path => Scanned(MovieFiles[n])


-----------------------------------------------------------------------------
(* The create payload *)

\* the page a record created from this NotionMovie holds
CreatedPage(nm) ==
    [title |-> nm.title, year |-> nm.year, tagline |-> nm.tagline,
     rating |-> nm.rating, imdb_url |-> None, rank |-> None,
     locations |-> <<>>]

\* the diff pass changes the rating of the record created from this movie
NeedsRatingPatch(local_movie) ==
    LET n == NotionMovie("new", CreatedPage(NotionMovie_from_Movie(local_movie)))
    IN  diff_rating(local_movie, [movie |-> n, had_changes |-> FALSE]).had_changes

\* C29: for every rating of a movie the pass found to be new, the stars of
\* the create payload are the stars the diff pass derives from that rating,
\* the payload's rating field is defined, and the next pass has no rating
\* to patch
C29_CreateStarsMatchDiff ==
    \A i \in 1..Len(added_movies) :
        LET data == added_movies[i]
        IN  /\ NotionMovie_from_Movie(data).rating_defined
            /\ (~IsNone(data.rating) /\ data.rating[1] > 0)
                  => create_stars(data.rating[1]) = update_stars(data.rating[1])
            /\ ~NeedsRatingPatch(data)


-----------------------------------------------------------------------------
(* A folder moved inside its location *)

\* the run pruned the linked movie ("A", 1), scanned, and has ended in or
\* after update_notion
MovedRunOver ==
    /\ pc = "done"
    /\ "r1" \in Range(removed_movie_ids)
    /\ last_op \in {"clear_raised", "load_raised", "update_raised", "update_notion"}
    /\ "/w/a" \in StoredPaths(movies)

\* C30: a run that pruned a linked movie whose folder was moved inside a
\* mounted location and found it again at its new path ends with one local
\* movie of that title and year, linked to the record it was linked to, and
\* with the label of the location among the locations of that record
C30_MovedRelinked ==
    MovedRunOver =>
        /\ MoviesWith(movies, "A", Some(1)) = 1
        /\ \A i \in 1..Len(movies) :
              (movies[i].title = "A" /\ movies[i].year = Some(1))
                  => movies[i].notion_id = Some("r1")
        /\ "Wotan" \in Range(remote["r1"].locations)

====
